---- MODULE Spec2Model ----
(***************************************************************************)
(* Admission control of the event gateway: src/middleware/security.py.     *)
(*                                                                         *)
(* The state is the RateLimiter of the process-wide SecurityMiddleware     *)
(* (its per-"ip:endpoint" deques of timestamps and its set of blocked      *)
(* addresses), the wall clock that is_allowed samples, the "IP blocked"    *)
(* warnings block_ip has logged, and the exchange served at the current    *)
(* instant: the request, the rate limiter it met and the outcome of        *)
(* validate_request.  served counts the requests that have arrived and     *)
(* hist, in the specifications that record it, lists their exchanges.      *)
(*                                                                         *)
(* Three more specifications run the same code otherwise: SpecApp holds   *)
(* several requests in flight, each the coroutine of security_check and of *)
(* the handler that call_next runs, on one event loop; SpecValidator and   *)
(* SpecLimiter call the methods of an APIKeyValidator and of a RateLimiter *)
(* directly.                                                               *)
(*                                                                         *)
(* Time is counted in whole ticks.  The configured limits (100, 10, 1000   *)
(* requests per 60 s) and the block duration (60 minutes) are scaled down  *)
(* to the bounds below; the payload maxima keep their configured values.   *)
(***************************************************************************)
EXTENDS Integers, Sequences, FiniteSets, TLC

VARIABLES now, requests, blocked_ips, block_log, request, before, outcome, served, hist,
          tasks, loop, response, service_bus_sender, api_key_validator, call

\* The requests in flight in the application (tasks), the task that holds the event
\* loop (loop), the request just answered (response) and the sender that startup has
\* or has not set (service_bus_sender)
appVars == <<tasks, loop, response, service_bus_sender>>

\* An APIKeyValidator and the last call made on a component, with what it returned
callVars == <<api_key_validator, call>>

vars == <<now, requests, blocked_ips, block_log, request, before, outcome, served, hist,
          tasks, loop, response, service_bus_sender, api_key_validator, call>>

(* ------------------------------ bounds -------------------------------- *)

\* last tick of the wall clock
MaxTime == 2
\* number of requests that arrive
MaxServed == 3
\* last tick of the wall clock, and number of requests that arrive, in the scenario
\* of two requests per ten ticks
ScenarioMaxTime == 3
ScenarioMaxServed == 4
\* "window" of every route (60 s in the source), in ticks
Window == 1
\* "limit" of /events (100 in the source)
LimitEvents == 2
\* "limit" of /events/batch (10 in the source)
LimitBatch == 1
\* "limit" of /health (1000 in the source)
LimitHealth == 2
\* duration validate_request passes to block_ip (60 minutes in the source), in ticks
BlockTicks == 1

\* number of requests in flight at a time in the application
MaxTasks == 2
\* largest number of events in the body of a POST /events/batch
MaxBatch == 1

(* --------------------------- program constants ------------------------ *)

\* max_payload_size of /events: 1024 * 1024
MaxPayloadEvents == 1048576
\* max_payload_size of /events/batch: 10 * 1024 * 1024
MaxPayloadBatch == 10485760

(* ------------------------------ text ---------------------------------- *)

\* A header value is a sequence of text pieces: an API-key header is made of the
\* piece "Bearer " and key pieces, a content-length header of single characters.
\* An absent header (None) and an empty one ("") are both <<>>: the code tests
\* header values for truthiness only, and both are false.
NoValue == <<>>

\* Truthiness of an optional string
Truthy(v) == v # NoValue

\* a or b
Or(a, b) == IF Truthy(a) THEN a ELSE b

\* api_key.startswith("Bearer ")
StartsWithBearer(v) == Len(v) >= 1 /\ v[1] = "Bearer "

\* api_key[7:] when api_key starts with "Bearer "
StripBearer(v) == Tail(v)

Digits == ("0" :> 0) @@ ("1" :> 1) @@ ("2" :> 2) @@ ("3" :> 3) @@ ("4" :> 4) @@
          ("5" :> 5) @@ ("6" :> 6) @@ ("7" :> 7) @@ ("8" :> 8) @@ ("9" :> 9)

\* int() accepts this text.  Of the texts int() accepts, the model knows the runs of
\* decimal digits with an optional "-" before them; any other text raises ValueError
IsIntText(s) ==
    LET from == IF s # <<>> /\ s[1] = "-" THEN 2 ELSE 1
    IN  Len(s) >= from /\ \A i \in from..Len(s) : s[i] \in DOMAIN Digits

\* The number that the decimal digits s[from..n] write
RECURSIVE DigitsValue(_, _, _)
DigitsValue(s, from, n) ==
    IF n < from THEN 0 ELSE 10 * DigitsValue(s, from, n - 1) + Digits[s[n]]

\* int(content_length) for a text int() accepts
IntOf(s) ==
    IF s[1] = "-" THEN 0 - DigitsValue(s, 2, Len(s)) ELSE DigitsValue(s, 1, Len(s))

(* ------------------------------ RateLimiter --------------------------- *)

\* key = f"{client_ip}:{endpoint}"
Key(client_ip, endpoint) == <<client_ip, endpoint>>

\* (mutant) "if" for "while": at most one old request is dropped
CleanOldOnce(dq, t, window_seconds) ==
    IF dq # <<>> /\ Head(dq) < t - window_seconds THEN Tail(dq) ELSE dq

\* (mutant) "<=" for "<": a request made exactly window_seconds ago is dropped
RECURSIVE CleanOldInclusive(_, _, _)
CleanOldInclusive(dq, t, window_seconds) ==
    IF dq # <<>> /\ Head(dq) <= t - window_seconds
    THEN CleanOldInclusive(Tail(dq), t, window_seconds)
    ELSE dq

\* while self.requests[key] and self.requests[key][0] < now - window_seconds: popleft()
RECURSIVE CleanOld(_, _, _)
CleanOld(dq, t, window_seconds) ==
    IF dq # <<>> /\ Head(dq) < t - window_seconds
    THEN CleanOld(Tail(dq), t, window_seconds)
    ELSE dq

\* (mutant) a refused request is recorded as well
is_allowed_RecordDenied(rl, client_ip, endpoint, limit, window_seconds, t) ==
    LET key == Key(client_ip, endpoint)
        cleaned == CleanOld(rl.requests[key], t, window_seconds)
    IN  [allowed |-> Len(cleaned) < limit,
         rl |-> [rl EXCEPT !.requests[key] = Append(cleaned, t)]]

\* (mutant) "len > limit" for "len >= limit"
is_allowed_OffByOne(rl, client_ip, endpoint, limit, window_seconds, t) ==
    LET key == <<client_ip, endpoint>>
        cleaned == CleanOld(rl.requests[key], t, window_seconds)
    IN  IF Len(cleaned) > limit
        THEN [allowed |-> FALSE, rl |-> [rl EXCEPT !.requests[key] = cleaned]]
        ELSE [allowed |-> TRUE, rl |-> [rl EXCEPT !.requests[key] = Append(cleaned, t)]]

\* (mutant) the admitted request is not recorded
is_allowed_NoAppend(rl, client_ip, endpoint, limit, window_seconds, t) ==
    LET key == <<client_ip, endpoint>>
        cleaned == CleanOld(rl.requests[key], t, window_seconds)
    IN  IF Len(cleaned) >= limit
        THEN [allowed |-> FALSE, rl |-> [rl EXCEPT !.requests[key] = cleaned]]
        ELSE [allowed |-> TRUE, rl |-> [rl EXCEPT !.requests[key] = cleaned]]

\* RateLimiter.is_allowed at time t (time.time()) on the rate limiter
\* rl = [requests, blocked_ips, block_log]: the returned flag and the rate limiter left
is_allowed(rl, client_ip, endpoint, limit, window_seconds, t) ==
    LET key == Key(client_ip, endpoint)
        cleaned == CleanOld(rl.requests[key], t, window_seconds)
    IN  IF Len(cleaned) >= limit
        THEN [allowed |-> FALSE, rl |-> [rl EXCEPT !.requests[key] = cleaned]]
        ELSE [allowed |-> TRUE, rl |-> [rl EXCEPT !.requests[key] = Append(cleaned, t)]]

\* (mutant) the warning is logged and the address is not added
block_ip_LogOnly(rl, ip, duration_minutes, t) ==
    [rl EXCEPT !.block_log = @ \cup {[ip |-> ip, duration_minutes |-> duration_minutes,
                                      at |-> t]}]

\* RateLimiter.block_ip at time t: the address joins blocked_ips; duration_minutes
\* goes to the "IP blocked" warning only
block_ip(rl, ip, duration_minutes, t) ==
    [rl EXCEPT !.blocked_ips = @ \cup {ip},
               !.block_log = @ \cup {[ip |-> ip, duration_minutes |-> duration_minutes,
                                      at |-> t]}]

\* RateLimiter.is_ip_blocked
is_ip_blocked(rl, ip) == ip \in rl.blocked_ips

(* ---------------------------- APIKeyValidator ------------------------- *)

\* An Optional value: None is <<>>, a value v is <<v>>
None == <<>>
Some(v) == <<v>>

\* (mutant) a "Bearer " prefix left on the key is dropped before the lookup
validate_key_BearerDropped(valid_keys, api_key) ==
    LET key == IF Len(api_key) >= 1 /\ api_key[1] = "Bearer " THEN Tail(api_key) ELSE api_key
    IN  IF key \in DOMAIN valid_keys
        THEN [is_valid |-> TRUE, key_info |-> Some(valid_keys[key])]
        ELSE [is_valid |-> FALSE, key_info |-> None]

\* APIKeyValidator.validate_key: (is_valid, key_info)
validate_key(valid_keys, api_key) ==
    IF api_key \in DOMAIN valid_keys
    THEN [is_valid |-> TRUE, key_info |-> Some(valid_keys[api_key])]
    ELSE [is_valid |-> FALSE, key_info |-> None]

\* (mutant) any key of the table holds every permission
has_permission_AnyKey(valid_keys, api_key, permission) ==
    validate_key(valid_keys, api_key).is_valid

\* (mutant) the permission is looked for in the permissions of every key of the table
has_permission_OfAnyKey(valid_keys, api_key, permission) ==
    /\ validate_key(valid_keys, api_key).is_valid
    /\ \E k \in DOMAIN valid_keys :
          "permissions" \in DOMAIN valid_keys[k] /\ permission \in valid_keys[k].permissions

\* APIKeyValidator.has_permission; key_info.get('permissions', []) reads a missing
\* entry as no permission, and an empty key_info is "not key_info"
has_permission(valid_keys, api_key, permission) ==
    LET r == validate_key(valid_keys, api_key)
    IN  IF ~r.is_valid \/ r.key_info = None \/ DOMAIN r.key_info[1] = {}
        THEN FALSE
        ELSE LET key_info == r.key_info[1]
                 permissions == IF "permissions" \in DOMAIN key_info
                                THEN key_info.permissions ELSE {}
             IN  permission \in permissions

(* --------------------------- SecurityMiddleware ----------------------- *)

\* SecurityMiddleware._load_api_keys
_load_api_keys ==
    (<<"dev-api-key-123">> :>
        [permissions |-> {"events:create", "events:batch"},
         rate_limits |-> ("/events" :> [limit |-> LimitEvents, window |-> Window]) @@
                         ("/events/batch" :> [limit |-> LimitBatch, window |-> Window])]) @@
    (<<"monitoring-key-456">> :>
        [permissions |-> {"health:read", "metrics:read"},
         rate_limits |-> ("/health" :> [limit |-> LimitHealth, window |-> Window])])

\* SecurityMiddleware._load_policies
_load_policies ==
    [rate_limits |->
        ("/events" :> [limit |-> LimitEvents, window |-> Window]) @@
        ("/events/batch" :> [limit |-> LimitBatch, window |-> Window]) @@
        ("/health" :> [limit |-> LimitHealth, window |-> Window]),
     auth_required |->
        ("/events" :> TRUE) @@ ("/events/batch" :> TRUE) @@ ("/health" :> FALSE),
     max_payload_size |->
        ("/events" :> MaxPayloadEvents) @@ ("/events/batch" :> MaxPayloadBatch)]

\* The (is_valid, error_message) pairs validate_request returns, and the ValueError
\* that int(content_length) raises out of it
Admit == [raised |-> FALSE, is_valid |-> TRUE, error_message |-> "None"]
Deny(msg) == [raised |-> FALSE, is_valid |-> FALSE, error_message |-> msg]
Raise(exc) == [raised |-> TRUE, is_valid |-> FALSE, error_message |-> exc]

\* (mutant) a route that auth_required does not name requires authentication
CheckAuthentication_DefaultRequired(policies, valid_keys, req) ==
    LET path == req.path
        auth_required == IF path \in DOMAIN policies.auth_required
                         THEN policies.auth_required[path] ELSE TRUE
        header == Or(req.x_api_key, req.authorization)
        api_key == IF StartsWithBearer(header) THEN StripBearer(header) ELSE header
    IN  IF ~auth_required THEN Admit
        ELSE IF ~Truthy(header) THEN Deny("API key required")
        ELSE IF ~validate_key(valid_keys, api_key).is_valid THEN Deny("Invalid API key")
        ELSE IF path = "/events" /\ ~has_permission(valid_keys, api_key, "events:create")
             THEN Deny("Insufficient permissions")
        ELSE IF path = "/events/batch" /\ ~has_permission(valid_keys, api_key, "events:batch")
             THEN Deny("Insufficient permissions")
        ELSE Admit

\* (mutant) a key that is not in the table is denied without a message
CheckAuthentication_NoMessage(policies, valid_keys, req) ==
    LET path == req.path
        auth_required == IF path \in DOMAIN policies.auth_required
                         THEN policies.auth_required[path] ELSE FALSE
        header == Or(req.x_api_key, req.authorization)
        api_key == IF StartsWithBearer(header) THEN StripBearer(header) ELSE header
    IN  IF ~auth_required THEN Admit
        ELSE IF ~Truthy(header) THEN Deny("API key required")
        ELSE IF ~validate_key(valid_keys, api_key).is_valid THEN Deny("None")
        ELSE IF path = "/events" /\ ~has_permission(valid_keys, api_key, "events:create")
             THEN Deny("Insufficient permissions")
        ELSE IF path = "/events/batch" /\ ~has_permission(valid_keys, api_key, "events:batch")
             THEN Deny("Insufficient permissions")
        ELSE Admit

\* validate_request, "Check authentication" (lines 149-170): the denial, or Admit to go on
CheckAuthentication(policies, valid_keys, req) ==
    LET path == req.path
        auth_required == IF path \in DOMAIN policies.auth_required
                         THEN policies.auth_required[path] ELSE FALSE
        header == Or(req.x_api_key, req.authorization)
        api_key == IF StartsWithBearer(header) THEN StripBearer(header) ELSE header
    IN  IF ~auth_required THEN Admit
        ELSE IF ~Truthy(header) THEN Deny("API key required")
        ELSE IF ~validate_key(valid_keys, api_key).is_valid THEN Deny("Invalid API key")
        ELSE IF path = "/events" /\ ~has_permission(valid_keys, api_key, "events:create")
             THEN Deny("Insufficient permissions")
        ELSE IF path = "/events/batch" /\ ~has_permission(valid_keys, api_key, "events:batch")
             THEN Deny("Insufficient permissions")
        ELSE Admit

\* (mutant) "int(content_length) >= max_size" for "int(content_length) > max_size"
CheckPayloadSize_AtMax(policies, req) ==
    LET content_length == req.content_length
        path == req.path
    IN  IF ~Truthy(content_length) THEN Admit
        ELSE IF ~(path \in DOMAIN policies.max_payload_size
                  /\ policies.max_payload_size[path] # 0) THEN Admit
        ELSE IF ~IsIntText(content_length) THEN Raise("ValueError")
        ELSE IF IntOf(content_length) >= policies.max_payload_size[path]
             THEN Deny("Payload too large")
        ELSE Admit

\* validate_request, "Check payload size" (lines 172-180)
CheckPayloadSize(policies, req) ==
    LET content_length == req.content_length
        path == req.path
    IN  IF ~Truthy(content_length) THEN Admit
        ELSE IF ~(path \in DOMAIN policies.max_payload_size
                  /\ policies.max_payload_size[path] # 0) THEN Admit
        ELSE IF ~IsIntText(content_length) THEN Raise("ValueError")
        ELSE IF IntOf(content_length) > policies.max_payload_size[path]
             THEN Deny("Payload too large")
        ELSE Admit

\* (mutant) the payload size is checked before the credential
CheckPayloadThenAuth(policies, valid_keys, req) ==
    LET size == CheckPayloadSize(policies, req)
    IN  IF size # Admit THEN size ELSE CheckAuthentication(policies, valid_keys, req)

\* validate_request, after the rate-limit check has let the request through
CheckAuthThenPayload(policies, valid_keys, req) ==
    LET auth == CheckAuthentication(policies, valid_keys, req)
    IN  IF auth # Admit THEN auth ELSE CheckPayloadSize(policies, req)

\* (mutant) the block list is consulted for rate-limited routes only
validate_request_BlockOnLimitedRoutes(policies, valid_keys, rl, req, t) ==
    LET client_ip == req.client_ip
        path == req.path
    IN  IF path \in DOMAIN policies.rate_limits
        THEN IF is_ip_blocked(rl, client_ip)
             THEN [outcome |-> Deny("IP address is blocked"), rl |-> rl]
             ELSE LET rate_limit_config == policies.rate_limits[path]
                      r == is_allowed(rl, client_ip, path,
                                      rate_limit_config.limit, rate_limit_config.window, t)
                  IN  IF ~r.allowed
                      THEN [outcome |-> Deny("Rate limit exceeded"),
                            rl |-> block_ip(r.rl, client_ip, BlockTicks, t)]
                      ELSE [outcome |-> CheckAuthThenPayload(policies, valid_keys, req),
                            rl |-> r.rl]
        ELSE [outcome |-> CheckAuthThenPayload(policies, valid_keys, req), rl |-> rl]

\* (mutant) the block is keyed by the API key presented, not by the address
validate_request_BlockByKey(policies, valid_keys, rl, req, t) ==
    LET client_ip == req.client_ip
        path == req.path
        header == Or(req.x_api_key, req.authorization)
        subject == IF Truthy(header) THEN header[Len(header)] ELSE client_ip
    IN  IF is_ip_blocked(rl, subject)
        THEN [outcome |-> Deny("IP address is blocked"), rl |-> rl]
        ELSE IF path \in DOMAIN policies.rate_limits
        THEN LET rate_limit_config == policies.rate_limits[path]
                 r == is_allowed(rl, client_ip, path,
                                 rate_limit_config.limit, rate_limit_config.window, t)
             IN  IF ~r.allowed
                 THEN [outcome |-> Deny("Rate limit exceeded"),
                       rl |-> block_ip(r.rl, subject, BlockTicks, t)]
                 ELSE [outcome |-> CheckAuthThenPayload(policies, valid_keys, req),
                       rl |-> r.rl]
        ELSE [outcome |-> CheckAuthThenPayload(policies, valid_keys, req), rl |-> rl]

\* (mutant) an invalid API key blocks the IP as well
validate_request_BlockOnInvalidKey(policies, valid_keys, rl, req, t) ==
    LET client_ip == req.client_ip
        path == req.path
        checked(after) ==
            LET o == CheckAuthThenPayload(policies, valid_keys, req)
            IN  [outcome |-> o,
                 rl |-> IF o = Deny("Invalid API key")
                        THEN block_ip(after, client_ip, BlockTicks, t) ELSE after]
    IN  IF is_ip_blocked(rl, client_ip)
        THEN [outcome |-> Deny("IP address is blocked"), rl |-> rl]
        ELSE IF path \in DOMAIN policies.rate_limits
        THEN LET rate_limit_config == policies.rate_limits[path]
                 r == is_allowed(rl, client_ip, path,
                                 rate_limit_config.limit, rate_limit_config.window, t)
             IN  IF ~r.allowed
                 THEN [outcome |-> Deny("Rate limit exceeded"),
                       rl |-> block_ip(r.rl, client_ip, BlockTicks, t)]
                 ELSE checked(r.rl)
        ELSE checked(rl)

\* (mutant) the rate limiter is consulted before the blocked check answers
validate_request_CountThenBlocked(policies, valid_keys, rl, req, t) ==
    LET client_ip == req.client_ip
        path == req.path
    IN  IF path \in DOMAIN policies.rate_limits
        THEN LET rate_limit_config == policies.rate_limits[path]
                 r == is_allowed(rl, client_ip, path,
                                 rate_limit_config.limit, rate_limit_config.window, t)
             IN  IF is_ip_blocked(rl, client_ip)
                 THEN [outcome |-> Deny("IP address is blocked"), rl |-> r.rl]
                 ELSE IF ~r.allowed
                 THEN [outcome |-> Deny("Rate limit exceeded"),
                       rl |-> block_ip(r.rl, client_ip, BlockTicks, t)]
                 ELSE [outcome |-> CheckAuthThenPayload(policies, valid_keys, req),
                       rl |-> r.rl]
        ELSE IF is_ip_blocked(rl, client_ip)
        THEN [outcome |-> Deny("IP address is blocked"), rl |-> rl]
        ELSE [outcome |-> CheckAuthThenPayload(policies, valid_keys, req), rl |-> rl]

\* (mutant) authentication and payload size are checked before the rate limit
validate_request_AuthBeforeLimit(policies, valid_keys, rl, req, t) ==
    LET client_ip == req.client_ip
        path == req.path
        o == CheckAuthThenPayload(policies, valid_keys, req)
    IN  IF is_ip_blocked(rl, client_ip)
        THEN [outcome |-> Deny("IP address is blocked"), rl |-> rl]
        ELSE IF o # Admit
        THEN [outcome |-> o, rl |-> rl]
        ELSE IF path \in DOMAIN policies.rate_limits
        THEN LET rate_limit_config == policies.rate_limits[path]
                 r == is_allowed(rl, client_ip, path,
                                 rate_limit_config.limit, rate_limit_config.window, t)
             IN  IF ~r.allowed
                 THEN [outcome |-> Deny("Rate limit exceeded"),
                       rl |-> block_ip(r.rl, client_ip, BlockTicks, t)]
                 ELSE [outcome |-> o, rl |-> r.rl]
        ELSE [outcome |-> o, rl |-> rl]

\* (mutant) the rate_limits of the key presented, when it has some for the path,
\* replace those of the policies
validate_request_KeyRateLimits(policies, valid_keys, rl, req, t) ==
    LET client_ip == req.client_ip
        path == req.path
        header == Or(req.x_api_key, req.authorization)
        api_key == IF StartsWithBearer(header) THEN StripBearer(header) ELSE header
        of_key == /\ api_key \in DOMAIN valid_keys
                  /\ "rate_limits" \in DOMAIN valid_keys[api_key]
                  /\ path \in DOMAIN valid_keys[api_key].rate_limits
    IN  IF is_ip_blocked(rl, client_ip)
        THEN [outcome |-> Deny("IP address is blocked"), rl |-> rl]
        ELSE IF path \in DOMAIN policies.rate_limits
        THEN LET rate_limit_config == IF of_key THEN valid_keys[api_key].rate_limits[path]
                                      ELSE policies.rate_limits[path]
                 r == is_allowed(rl, client_ip, path,
                                 rate_limit_config.limit, rate_limit_config.window, t)
             IN  IF ~r.allowed
                 THEN [outcome |-> Deny("Rate limit exceeded"),
                       rl |-> block_ip(r.rl, client_ip, BlockTicks, t)]
                 ELSE [outcome |-> CheckAuthThenPayload(policies, valid_keys, req),
                       rl |-> r.rl]
        ELSE [outcome |-> CheckAuthThenPayload(policies, valid_keys, req), rl |-> rl]

\* SecurityMiddleware.validate_request at time t on the rate limiter rl: the
\* outcome and the rate limiter left
validate_request(policies, valid_keys, rl, req, t) ==
    LET client_ip == req.client_ip
        path == req.path
    IN  IF is_ip_blocked(rl, client_ip)
        THEN [outcome |-> Deny("IP address is blocked"), rl |-> rl]
        ELSE IF path \in DOMAIN policies.rate_limits
        THEN LET rate_limit_config == policies.rate_limits[path]
                 r == is_allowed(rl, client_ip, path,
                                 rate_limit_config.limit, rate_limit_config.window, t)
             IN  IF ~r.allowed
                 THEN [outcome |-> Deny("Rate limit exceeded"),
                       rl |-> block_ip(r.rl, client_ip, BlockTicks, t)]
                 ELSE [outcome |-> CheckAuthThenPayload(policies, valid_keys, req),
                       rl |-> r.rl]
        ELSE [outcome |-> CheckAuthThenPayload(policies, valid_keys, req), rl |-> rl]

(* ------------------------------ security_check ------------------------ *)

\* status codes the code names
HTTP_429_TOO_MANY_REQUESTS == 429
HTTP_401_UNAUTHORIZED == 401
HTTP_500_INTERNAL_SERVER_ERROR == 500
HTTP_503_SERVICE_UNAVAILABLE == 503

\* The characters of the messages validate_request returns
Text ==
    ("IP address is blocked" :>
        <<"I", "P", " ", "a", "d", "d", "r", "e", "s", "s", " ", "i",
          "s", " ", "b", "l", "o", "c", "k", "e", "d">>) @@
    ("Rate limit exceeded" :>
        <<"R", "a", "t", "e", " ", "l", "i", "m", "i", "t", " ", "e",
          "x", "c", "e", "e", "d", "e", "d">>) @@
    ("API key required" :>
        <<"A", "P", "I", " ", "k", "e", "y", " ", "r", "e", "q", "u",
          "i", "r", "e", "d">>) @@
    ("Invalid API key" :>
        <<"I", "n", "v", "a", "l", "i", "d", " ", "A", "P", "I", " ",
          "k", "e", "y">>) @@
    ("Insufficient permissions" :>
        <<"I", "n", "s", "u", "f", "f", "i", "c", "i", "e", "n", "t",
          " ", "p", "e", "r", "m", "i", "s", "s", "i", "o", "n", "s">>) @@
    ("Payload too large" :>
        <<"P", "a", "y", "l", "o", "a", "d", " ", "t", "o", "o", " ",
          "l", "a", "r", "g", "e">>)

\* str.lower(), on the letters A to Z
LowerCase ==
    ("A" :> "a") @@ ("B" :> "b") @@ ("C" :> "c") @@ ("D" :> "d") @@ ("E" :> "e") @@
    ("F" :> "f") @@ ("G" :> "g") @@ ("H" :> "h") @@ ("I" :> "i") @@ ("J" :> "j") @@
    ("K" :> "k") @@ ("L" :> "l") @@ ("M" :> "m") @@ ("N" :> "n") @@ ("O" :> "o") @@
    ("P" :> "p") @@ ("Q" :> "q") @@ ("R" :> "r") @@ ("S" :> "s") @@ ("T" :> "t") @@
    ("U" :> "u") @@ ("V" :> "v") @@ ("W" :> "w") @@ ("X" :> "x") @@ ("Y" :> "y") @@
    ("Z" :> "z")

lower(s) == [i \in 1..Len(s) |-> IF s[i] \in DOMAIN LowerCase THEN LowerCase[s[i]] ELSE s[i]]

\* sub in s
Contains(sub, s) ==
    \E k \in 0..(Len(s) - Len(sub)) : \A j \in 1..Len(sub) : s[k + j] = sub[j]

\* (mutant) the message is not lowered before the search
status_code_CaseSensitive(error_message) ==
    IF Contains(<<"r", "a", "t", "e", " ", "l", "i", "m", "i", "t">>, Text[error_message])
    THEN HTTP_429_TOO_MANY_REQUESTS
    ELSE HTTP_401_UNAUTHORIZED

\* security_check, lines 202-203: the status of the response to a denied request
status_code(error_message) ==
    IF Contains(<<"r", "a", "t", "e", " ", "l", "i", "m", "i", "t">>,
                lower(Text[error_message]))
    THEN HTTP_429_TOO_MANY_REQUESTS
    ELSE HTTP_401_UNAUTHORIZED

\* A request in flight: the place its coroutine has reached (pc), the time is_allowed
\* sampled (t, its local "now", 0 outside is_allowed), what validate_request returned
\* (outcome, None before it returns), the status of the response (0 before there is
\* one), whether security_check added its headers to the response, and, for the
\* handler, the events still to send (left), the sends invoked (sends) and those
\* that failed (failed_count)
NewTask(req) ==
    [req |-> req, pc |-> "security_check", t |-> 0, outcome |-> None,
     status |-> 0, security_headers |-> FALSE, left |-> 0, sends |-> 0, failed_count |-> 0]

\* (mutant) is_allowed gives the event loop up between its count and its append
Suspends_InIsAllowed(pc) == pc \in {"append", "call_next", "send"}

\* The coroutine at pc is suspended in an await: security_check awaits
\* validate_request, which awaits nothing, and then call_next; of the handlers,
\* send_event_to_service_bus awaits the sender
Suspends(pc) == pc \in {"call_next", "send"}

\* (mutant) call_next is reached whatever validate_request returned
AfterValidate_NoReturn(o) ==
    IF o.raised THEN [pc |-> "done", status |-> HTTP_500_INTERNAL_SERVER_ERROR]
    ELSE [pc |-> "call_next", status |-> 0]

\* (mutant) the denial is raised in the middleware, and the server answers 500
AfterValidate_RaiseDenial(o) ==
    IF o.raised \/ ~o.is_valid
    THEN [pc |-> "done", status |-> HTTP_500_INTERNAL_SERVER_ERROR]
    ELSE [pc |-> "call_next", status |-> 0]

\* security_check, lines 198-211, once validate_request is over: the denial's
\* response, or call_next; an exception leaves security_check and the server answers
\* 500 (the ValueError of validate_request, or the AttributeError of
\* error_message.lower() on a denial whose message is None)
AfterValidate(o) ==
    IF o.raised THEN [pc |-> "done", status |-> HTTP_500_INTERNAL_SERVER_ERROR]
    ELSE IF ~o.is_valid
    THEN IF o.error_message = "None"
         THEN [pc |-> "done", status |-> HTTP_500_INTERNAL_SERVER_ERROR]
         ELSE [pc |-> "done", status |-> status_code(o.error_message)]
    ELSE [pc |-> "call_next", status |-> 0]

\* validate_request returns o to security_check
Returned(k, o) ==
    LET a == AfterValidate(o)
    IN  [k EXCEPT !.outcome = Some(o), !.pc = a.pc, !.status = a.status]

(* ------------------------------ the system ---------------------------- *)

\* request.client.host
Identities == {"1.2.3.4", "5.6.7.8"}

\* request.url.path: the three routes of the policy tables, and one they do not name
Paths == {"/events", "/events/batch", "/health", "/docs"}

\* X-API-Key header values
XApiKeys == {NoValue, <<"dev-api-key-123">>, <<"monitoring-key-456">>, <<"invalid-key">>}

\* (X-API-Key, Authorization) header values: either header alone, both, neither
Credentials ==
    {<<x, NoValue>> : x \in XApiKeys} \cup
    {<<NoValue, <<"Bearer ", "dev-api-key-123">> >>, <<NoValue, <<"Bearer ">> >>,
     <<NoValue, <<"monitoring-key-456">> >>,
     <<<<"invalid-key">>, <<"Bearer ", "dev-api-key-123">> >>}

\* content-length header values: none, the maximum of /events, one more, one more than
\* the maximum of /events/batch, and a text int() rejects
AtMaxEvents == <<"1", "0", "4", "8", "5", "7", "6">>
OverMaxEvents == <<"1", "0", "4", "8", "5", "7", "7">>
OverMaxBatch == <<"1", "0", "4", "8", "5", "7", "6", "1">>
NotANumber == <<"1", "2", "x">>
ContentLengths == {NoValue, AtMaxEvents, OverMaxEvents, OverMaxBatch, NotANumber}

\* Every request descriptor the properties range over
Req(ip, path, x, a, c) ==
    [client_ip |-> ip, path |-> path, x_api_key |-> x, authorization |-> a,
     content_length |-> c]

Requests ==
    {Req(ip, path, cr[1], cr[2], c) :
        ip \in Identities, path \in Paths, cr \in Credentials, c \in ContentLengths}

\* The requests that arrive.  From the first identity: /events with every credential,
\* without a content-length and over the maximum, and with a content-length at the
\* maximum or that is no number; /events/batch with both keys of the table; /health
\* and /docs without a credential.  From the second identity: /events and /docs.
Arrivals ==
    {Req("1.2.3.4", "/events", cr[1], cr[2], c) :
        cr \in Credentials, c \in {NoValue, OverMaxEvents}}
    \cup
    {Req("1.2.3.4", "/events", x, NoValue, c) :
        x \in {<<"dev-api-key-123">>, <<"invalid-key">>}, c \in {AtMaxEvents, NotANumber}}
    \cup
    {Req("1.2.3.4", "/events/batch", <<"dev-api-key-123">>, NoValue, NoValue),
     Req("1.2.3.4", "/events/batch", <<"dev-api-key-123">>, NoValue, OverMaxBatch),
     Req("1.2.3.4", "/events/batch", <<"monitoring-key-456">>, NoValue, NoValue),
     Req("1.2.3.4", "/health", NoValue, NoValue, NoValue),
     Req("1.2.3.4", "/docs", NoValue, NoValue, OverMaxBatch),
     Req("5.6.7.8", "/events", <<"dev-api-key-123">>, NoValue, NoValue),
     Req("5.6.7.8", "/docs", NoValue, NoValue, NoValue)}

\* The rate limiter of the state
RL == [requests |-> requests, blocked_ips |-> blocked_ips, block_log |-> block_log]

\* SecurityMiddleware.__init__ / RateLimiter.__init__: empty deques (the defaultdict
\* reads as an empty deque at every key), nobody blocked, nothing served yet
Init ==
    /\ now = 0
    /\ requests = [k \in Identities \X Paths |-> <<>>]
    /\ blocked_ips = {}
    /\ block_log = {}
    /\ request = <<>>
    /\ before = <<>>
    /\ outcome = <<>>
    /\ served = 0
    /\ hist = <<>>
    /\ tasks = <<>>
    /\ loop = 0
    /\ response = <<>>
    /\ service_bus_sender = FALSE
    /\ api_key_validator = [valid_keys |-> _load_api_keys]
    /\ call = <<>>

\* The wall clock advances between requests; the exchange of the instant is over
Tick ==
    /\ now < MaxTime
    /\ now' = now + 1
    /\ request' = <<>>
    /\ before' = <<>>
    /\ outcome' = <<>>
    /\ response' = <<>>
    /\ UNCHANGED <<requests, blocked_ips, block_log, served, hist, tasks, loop,
                   service_bus_sender, callVars>>

\* security_check serves request req: validate_request under the tables the
\* middleware instance holds, and then the denial's response, or call_next
Validate(policies, valid_keys, req) ==
    LET v == validate_request(policies, valid_keys, RL, req, now)
    IN  /\ requests' = v.rl.requests
        /\ blocked_ips' = v.rl.blocked_ips
        /\ block_log' = v.rl.block_log
        /\ request' = <<req>>
        /\ before' = <<RL>>
        /\ outcome' = <<v.outcome>>
        /\ served' = served + 1
        /\ response' = Some(Returned(NewTask(req), v.outcome))
        /\ UNCHANGED <<now, tasks, loop, service_bus_sender, callVars>>

Serve(req) ==
    /\ served < MaxServed
    /\ Validate(_load_policies, _load_api_keys, req)
    /\ UNCHANGED hist

Next ==
    \/ Tick
    \/ \E req \in Arrivals : Serve(req)

Spec == Init /\ [][Next]_vars

(* --------------------- the same system, exchanges recorded ------------ *)

\* The exchange just served, as hist records it
Entry == [request |-> request'[1], at |-> now, outcome |-> outcome'[1]]

\* The requests that arrive when the exchanges are recorded: from the first identity,
\* /events with the key that may create events, with no key, with a key of no table,
\* with a key that lacks the permission and with a payload over the maximum,
\* /events/batch and /health; from the second identity, /events
TracedArrivals ==
    {Req("1.2.3.4", "/events", <<"dev-api-key-123">>, NoValue, NoValue),
     Req("1.2.3.4", "/events", NoValue, NoValue, NoValue),
     Req("1.2.3.4", "/events", <<"invalid-key">>, NoValue, NoValue),
     Req("1.2.3.4", "/events", <<"monitoring-key-456">>, NoValue, NoValue),
     Req("1.2.3.4", "/events", <<"dev-api-key-123">>, NoValue, OverMaxEvents),
     Req("1.2.3.4", "/events/batch", NoValue, <<"Bearer ", "dev-api-key-123">>, NoValue),
     Req("1.2.3.4", "/health", NoValue, NoValue, NoValue),
     Req("5.6.7.8", "/events", <<"dev-api-key-123">>, NoValue, NoValue)}

ServeTraced(req) ==
    /\ served < MaxServed
    /\ Validate(_load_policies, _load_api_keys, req)
    /\ hist' = Append(hist, Entry)

NextTraced ==
    \/ Tick
    \/ \E req \in TracedArrivals : ServeTraced(req)

SpecTraced == Init /\ [][NextTraced]_vars

(* ------------- the scenario: /events at two requests per ten ticks ----- *)

\* A middleware instance whose tables are those of the scenario: /events requires
\* authentication and admits 2 requests per 10 ticks; keys K and K2 may create events
ScenarioPolicies ==
    [rate_limits |-> ("/events" :> [limit |-> 2, window |-> 10]),
     auth_required |-> ("/events" :> TRUE),
     max_payload_size |-> ("/events" :> MaxPayloadEvents)]

ScenarioKeys ==
    (<<"K">> :> [permissions |-> {"events:create"},
                 rate_limits |-> ("/events" :> [limit |-> 2, window |-> 10])]) @@
    (<<"K2">> :> [permissions |-> {"events:create"},
                  rate_limits |-> ("/events" :> [limit |-> 1, window |-> 1])])

ScenarioArrivals ==
    {Req("1.2.3.4", "/events", <<"K">>, NoValue, NoValue),
     Req("1.2.3.4", "/events", <<"K2">>, NoValue, NoValue),
     Req("5.6.7.8", "/events", <<"K">>, NoValue, NoValue)}

TickScenario ==
    /\ now < ScenarioMaxTime
    /\ now' = now + 1
    /\ request' = <<>>
    /\ before' = <<>>
    /\ outcome' = <<>>
    /\ response' = <<>>
    /\ UNCHANGED <<requests, blocked_ips, block_log, served, hist, tasks, loop,
                   service_bus_sender, callVars>>

ServeScenario(req) ==
    /\ served < ScenarioMaxServed
    /\ Validate(ScenarioPolicies, ScenarioKeys, req)
    /\ hist' = Append(hist, Entry)

NextScenario ==
    \/ TickScenario
    \/ \E req \in ScenarioArrivals : ServeScenario(req)

SpecScenario == Init /\ [][NextScenario]_vars

(* ---------------- the application: requests in flight ------------------ *)

\* The requests the application receives, all from one identity and with the key that
\* may create events and send batches: /events/batch, and /events with the
\* content-length absent and no number
AppArrivals ==
    {Req("1.2.3.4", "/events/batch", <<"dev-api-key-123">>, NoValue, NoValue),
     Req("1.2.3.4", "/events", <<"dev-api-key-123">>, NoValue, NoValue),
     Req("1.2.3.4", "/events", <<"dev-api-key-123">>, NoValue, NotANumber)}

\* startup_event has run: initialize_service_bus has set the sender, or has failed and
\* left it None (FALSE)
InitApp ==
    /\ now = 0
    /\ requests = [k \in Identities \X Paths |-> <<>>]
    /\ blocked_ips = {}
    /\ block_log = {}
    /\ request = <<>>
    /\ before = <<>>
    /\ outcome = <<>>
    /\ served = 0
    /\ hist = <<>>
    /\ tasks = <<>>
    /\ loop = 0
    /\ response = <<>>
    /\ service_bus_sender \in BOOLEAN
    /\ api_key_validator = [valid_keys |-> _load_api_keys]
    /\ call = <<>>

\* The server hands a request to the application: a task that will run security_check
Receive(req) ==
    /\ loop = 0
    /\ served < MaxServed
    /\ Len(tasks) < MaxTasks
    /\ tasks' = Append(tasks, NewTask(req))
    /\ served' = served + 1
    /\ response' = <<>>
    /\ UNCHANGED <<now, requests, blocked_ips, block_log, request, before, outcome,
                   hist, loop, service_bus_sender, callVars>>

\* Task i is there and may run: it holds the event loop, or nobody does
Runnable(i, pc) == i \in DOMAIN tasks /\ tasks[i].pc = pc /\ loop \in {0, i}

\* Task i has run up to k: it keeps the event loop unless it is suspended or over,
\* and when it is over its response is sent
Reach(i, k) ==
    /\ tasks' = IF k.pc = "done"
                THEN SubSeq(tasks, 1, i - 1) \o SubSeq(tasks, i + 1, Len(tasks))
                ELSE [tasks EXCEPT ![i] = k]
    /\ response' = IF k.pc = "done" THEN Some(k) ELSE None
    /\ loop' = IF Suspends(k.pc) \/ k.pc = "done" THEN 0 ELSE i

\* validate_request, lines 128-139: the block list, and whether the route is rate limited
CheckBlocked(i) ==
    LET k == tasks[i]
    IN  /\ Runnable(i, "security_check")
        /\ Reach(i, IF is_ip_blocked(RL, k.req.client_ip)
                    THEN Returned(k, Deny("IP address is blocked"))
                    ELSE IF k.req.path \in DOMAIN _load_policies.rate_limits
                    THEN [k EXCEPT !.pc = "clean_count"]
                    ELSE [k EXCEPT !.pc = "auth"])
        /\ UNCHANGED <<now, requests, blocked_ips, block_log, request, before, outcome,
                       served, hist, service_bus_sender, callVars>>

\* is_allowed, lines 28-44: the clock is sampled, the old requests are dropped, the
\* rest are counted
CleanAndCount(i) ==
    LET k == tasks[i]
        key == Key(k.req.client_ip, k.req.path)
        rate_limit_config == _load_policies.rate_limits[k.req.path]
        cleaned == CleanOld(requests[key], now, rate_limit_config.window)
    IN  /\ Runnable(i, "clean_count")
        /\ requests' = [requests EXCEPT ![key] = cleaned]
        /\ Reach(i, [k EXCEPT !.t = now,
                              !.pc = IF Len(cleaned) >= rate_limit_config.limit
                                     THEN "block_ip" ELSE "append"])
        /\ UNCHANGED <<now, blocked_ips, block_log, request, before, outcome,
                       served, hist, service_bus_sender, callVars>>

\* validate_request, lines 146-147: is_allowed has returned False
BlockAndDeny(i) ==
    LET k == tasks[i]
        rl == block_ip(RL, k.req.client_ip, BlockTicks, now)
    IN  /\ Runnable(i, "block_ip")
        /\ blocked_ips' = rl.blocked_ips
        /\ block_log' = rl.block_log
        /\ Reach(i, Returned([k EXCEPT !.t = 0], Deny("Rate limit exceeded")))
        /\ UNCHANGED <<now, requests, request, before, outcome,
                       served, hist, service_bus_sender, callVars>>

\* is_allowed, lines 47-48: the request is recorded at the time sampled
AppendNow(i) ==
    LET k == tasks[i]
        key == Key(k.req.client_ip, k.req.path)
    IN  /\ Runnable(i, "append")
        /\ requests' = [requests EXCEPT ![key] = Append(@, k.t)]
        /\ Reach(i, [k EXCEPT !.t = 0, !.pc = "auth"])
        /\ UNCHANGED <<now, blocked_ips, block_log, request, before, outcome,
                       served, hist, service_bus_sender, callVars>>

\* validate_request, lines 149-180
Authenticate(i) ==
    LET k == tasks[i]
    IN  /\ Runnable(i, "auth")
        /\ Reach(i, Returned(k, CheckAuthThenPayload(_load_policies, _load_api_keys, k.req)))
        /\ UNCHANGED <<now, requests, blocked_ips, block_log, request, before, outcome,
                       served, hist, service_bus_sender, callVars>>

\* The response of a handler reaches security_check, which adds its headers
\* (lines 211-219)
Respond(k, code) ==
    [k EXCEPT !.pc = "done", !.status = code, !.security_headers = TRUE]

\* call_next runs the handler of the route up to its first send.  create_event and
\* create_events_batch: the body is validated (422 when it is not an event, or a list
\* of events), the sender must be there (503), and the first event is sent; a batch
\* may be empty.  health_check and the documentation page answer at once.
CallNext(i) ==
    LET k == tasks[i]
        path == k.req.path
    IN  /\ Runnable(i, "call_next")
        /\ IF path \in {"/events", "/events/batch"}
           THEN \E body_ok \in BOOLEAN :
                \E n \in (IF path = "/events" THEN {1} ELSE 0..MaxBatch) :
                    Reach(i, IF ~body_ok THEN Respond(k, 422)
                             ELSE IF ~service_bus_sender
                             THEN Respond(k, HTTP_503_SERVICE_UNAVAILABLE)
                             ELSE IF n = 0 THEN Respond(k, 200)
                             ELSE [k EXCEPT !.pc = "send", !.left = n, !.sends = 1])
           ELSE Reach(i, Respond(k, 200))
        /\ UNCHANGED <<now, requests, blocked_ips, block_log, request, before, outcome,
                       served, hist, service_bus_sender, callVars>>

\* send_event_to_service_bus is over: the message is sent, or the sender has raised.
\* create_event answers 200, or 500 for the HTTPException of line 179;
\* create_events_batch counts the failure (lines 308-315), sends the next event and
\* answers 200 after the last
Sent(i) ==
    LET k == tasks[i]
    IN  /\ Runnable(i, "send")
        /\ \E ok \in BOOLEAN :
              LET failed == [k EXCEPT !.failed_count = @ + (IF ok THEN 0 ELSE 1),
                                      !.left = @ - 1]
              IN  Reach(i, IF k.req.path = "/events"
                           THEN Respond(failed, IF ok THEN 200
                                                ELSE HTTP_500_INTERNAL_SERVER_ERROR)
                           ELSE IF failed.left > 0
                           THEN [failed EXCEPT !.sends = @ + 1]
                           ELSE Respond(failed, 200))
        /\ UNCHANGED <<now, requests, blocked_ips, block_log, request, before, outcome,
                       served, hist, service_bus_sender, callVars>>

NextApp ==
    \/ Tick
    \/ \E req \in AppArrivals : Receive(req)
    \/ \E i \in 1..MaxTasks : CheckBlocked(i)
    \/ \E i \in 1..MaxTasks : CleanAndCount(i)
    \/ \E i \in 1..MaxTasks : BlockAndDeny(i)
    \/ \E i \in 1..MaxTasks : AppendNow(i)
    \/ \E i \in 1..MaxTasks : Authenticate(i)
    \/ \E i \in 1..MaxTasks : CallNext(i)
    \/ \E i \in 1..MaxTasks : Sent(i)

SpecApp == InitApp /\ [][NextApp]_vars

(* ------------------- APIKeyValidator, called directly ----------------- *)

\* Tables an APIKeyValidator is built on: the one _load_api_keys returns, the one of
\* the scenario, one with no key, and one whose entries are a full one, one with
\* no permission, one without "permissions" and an empty one
OddKeys ==
    (<<"dev-api-key-123">> :> [permissions |-> {"events:create"}]) @@
    (<<"monitoring-key-456">> :> [permissions |-> {}]) @@
    (<<"K">> :> [rate_limits |-> <<>>]) @@
    (<<"K2">> :> <<>>)

KeyTables == {_load_api_keys, ScenarioKeys, <<>>, OddKeys}

\* Keys presented: keys of the tables, a key of none, the empty string, and a key of
\* the table with "Bearer " left before it and in another case
ApiKeys ==
    {<<"dev-api-key-123">>, <<"monitoring-key-456">>, <<"K">>, <<"K2">>, <<"invalid-key">>,
     <<>>, <<"Bearer ", "dev-api-key-123">>, <<"DEV-API-KEY-123">>}

\* Permissions asked for: those of the tables, and two that no key holds
Permissions ==
    {"events:create", "events:batch", "health:read", "metrics:read", "events", "admin"}

\* APIKeyValidator(valid_keys) for some table
InitValidator ==
    /\ now = 0
    /\ requests = [k \in Identities \X Paths |-> <<>>]
    /\ blocked_ips = {}
    /\ block_log = {}
    /\ request = <<>>
    /\ before = <<>>
    /\ outcome = <<>>
    /\ served = 0
    /\ hist = <<>>
    /\ tasks = <<>>
    /\ loop = 0
    /\ response = <<>>
    /\ service_bus_sender = FALSE
    /\ api_key_validator \in {[valid_keys |-> t] : t \in KeyTables}
    /\ call = <<>>

\* api_key_validator.validate_key(api_key) is called
CallValidateKey(api_key) ==
    /\ call' = Some([op |-> "validate_key", api_key |-> api_key,
                     valid_keys |-> api_key_validator.valid_keys,
                     result |-> validate_key(api_key_validator.valid_keys, api_key)])
    /\ UNCHANGED <<now, requests, blocked_ips, block_log, request, before, outcome,
                   served, hist, appVars, api_key_validator>>

\* api_key_validator.has_permission(api_key, permission) is called
CallHasPermission(api_key, permission) ==
    /\ call' = Some([op |-> "has_permission", api_key |-> api_key,
                     permission |-> permission,
                     valid_keys |-> api_key_validator.valid_keys,
                     result |-> has_permission(api_key_validator.valid_keys, api_key,
                                               permission)])
    /\ UNCHANGED <<now, requests, blocked_ips, block_log, request, before, outcome,
                   served, hist, appVars, api_key_validator>>

NextValidator ==
    \/ \E api_key \in ApiKeys : CallValidateKey(api_key)
    \/ \E api_key \in ApiKeys : \E permission \in Permissions :
          CallHasPermission(api_key, permission)

SpecValidator == InitValidator /\ [][NextValidator]_vars

(* --------------------- RateLimiter, called directly ------------------- *)

\* Durations passed to block_ip
Durations == {BlockTicks, BlockTicks + 1}

\* rate_limiter.block_ip(ip, duration_minutes) is called
CallBlockIp(ip, duration_minutes) ==
    LET rl == block_ip(RL, ip, duration_minutes, now)
    IN  /\ served < MaxServed
        /\ blocked_ips' = rl.blocked_ips
        /\ block_log' = rl.block_log
        /\ requests' = rl.requests
        /\ call' = Some([op |-> "block_ip", ip |-> ip,
                         duration_minutes |-> duration_minutes, at |-> now,
                         before |-> RL])
        /\ served' = served + 1
        /\ UNCHANGED <<now, request, before, outcome, hist, appVars, api_key_validator>>

\* Endpoints, limits and windows passed to is_allowed
Endpoints == {"/events", "/events/batch"}
Limits == {LimitBatch, LimitEvents}
Windows == {Window}

\* rate_limiter.is_allowed(client_ip, endpoint, limit, window_seconds) is called
CallIsAllowed(client_ip, endpoint, limit, window_seconds) ==
    LET r == is_allowed(RL, client_ip, endpoint, limit, window_seconds, now)
    IN  /\ served < MaxServed
        /\ requests' = r.rl.requests
        /\ blocked_ips' = r.rl.blocked_ips
        /\ block_log' = r.rl.block_log
        /\ call' = Some([op |-> "is_allowed", client_ip |-> client_ip,
                         endpoint |-> endpoint, limit |-> limit,
                         window_seconds |-> window_seconds, at |-> now,
                         before |-> RL, result |-> r.allowed])
        /\ served' = served + 1
        /\ UNCHANGED <<now, request, before, outcome, hist, appVars, api_key_validator>>

NextLimiter ==
    \/ Tick
    \/ \E ip \in Identities : \E duration_minutes \in Durations :
          CallBlockIp(ip, duration_minutes)
    \/ \E client_ip \in Identities : \E endpoint \in Endpoints :
          \E limit \in Limits : \E window_seconds \in Windows :
             CallIsAllowed(client_ip, endpoint, limit, window_seconds)

SpecLimiter == Init /\ [][NextLimiter]_vars

(* ------------------------- vocabulary of the properties --------------- *)

\* The denial reasons and the messages validate_request returns for them
Blocked == Deny("IP address is blocked")
RateLimited == Deny("Rate limit exceeded")
AuthMissing == Deny("API key required")
AuthInvalid == Deny("Invalid API key")
Forbidden == Deny("Insufficient permissions")
PayloadTooLarge == Deny("Payload too large")

\* What serving req in the current state returns and leaves
Post(req) == validate_request(_load_policies, _load_api_keys, RL, req, now)

\* The exchange of the current instant
Exchanged == request # <<>>
TheRequest == request[1]
TheOutcome == outcome[1]
Before == before[1]

RateLimitedRoutes == DOMAIN _load_policies.rate_limits
LimitOf(path) == _load_policies.rate_limits[path].limit
WindowOf(path) == _load_policies.rate_limits[path].window

\* Number of timestamps of a log that are not older than t - window
InWindow(log, t, window) == Cardinality({i \in 1..Len(log) : log[i] >= t - window})

\* Number of timestamps of a log that are newer than t - window
Newer(log, t, window) == Cardinality({i \in 1..Len(log) : log[i] > t - window})

\* The route's rate limit lets one more request of ip through at time t
WithinLimit(rl, ip, path, t) ==
    path \in RateLimitedRoutes =>
        InWindow(rl.requests[<<ip, path>>], t, WindowOf(path)) < LimitOf(path)

\* The credential a request presents: X-API-Key, else Authorization, "Bearer " dropped
Credential(req) ==
    LET h == IF req.x_api_key # <<>> THEN req.x_api_key ELSE req.authorization
    IN  IF h # <<>> /\ h[1] = "Bearer " THEN Tail(h) ELSE h

HasCredential(req) == req.x_api_key # <<>> \/ req.authorization # <<>>

AuthRequired(path) == path \in {"/events", "/events/batch"}

RequiredPermission(path) == IF path = "/events" THEN "events:create" ELSE "events:batch"

KnownKey(req) == Credential(req) \in {<<"dev-api-key-123">>, <<"monitoring-key-456">>}

Permitted(req) ==
    /\ KnownKey(req)
    /\ RequiredPermission(req.path) \in _load_api_keys[Credential(req)].permissions

\* The request passes authentication on its route
Authenticated(req) == AuthRequired(req.path) => (HasCredential(req) /\ Permitted(req))

\* The route's maximum payload size, 0 when it has none
MaxPayload(path) ==
    IF path = "/events" THEN MaxPayloadEvents
    ELSE IF path = "/events/batch" THEN MaxPayloadBatch ELSE 0

\* The content-length is a number above the route's maximum
Oversized(req) ==
    /\ MaxPayload(req.path) > 0
    /\ req.content_length # <<>>
    /\ IsIntText(req.content_length)
    /\ IntOf(req.content_length) > MaxPayload(req.path)

\* The content-length header is absent or a number
WellFormed(req) == req.content_length = <<>> \/ IsIntText(req.content_length)

(* ------------------------------- C2 ----------------------------------- *)

C3_HardCeiling ==
    \A ip \in Identities : \A path \in RateLimitedRoutes :
        Newer(requests[<<ip, path>>], now, WindowOf(path)) <= LimitOf(path)

\* is_allowed has just admitted the request that fills the window
C3_Witness ==
    /\ Exchanged
    /\ TheRequest.path = "/events"
    /\ TheOutcome = Admit
    /\ Len(requests[<<TheRequest.client_ip, "/events">>]) =
           Len(Before.requests[<<TheRequest.client_ip, "/events">>]) + 1
    /\ Newer(requests[<<TheRequest.client_ip, "/events">>], now, WindowOf("/events"))
           = LimitOf("/events")

(* ------------------------------- C4 ----------------------------------- *)

\* C4: while an identity is blocked, every request from it is denied "IP address is
\* blocked": on every route, rate limited or not, authenticated or not, whatever its
\* credential and content-length.
C4_BlockedDeniedEverywhere ==
    \A req \in Requests :
        req.client_ip \in blocked_ips => Post(req).outcome = Blocked

\* A blocked identity is served on the route with no rate limit and no authentication
C4_Witness ==
    /\ Exchanged
    /\ TheRequest.client_ip \in Before.blocked_ips
    /\ TheRequest.path = "/docs"
    /\ TheRequest.content_length # <<>>
    /\ TheOutcome = Blocked

(* ------------------------------- C5 ----------------------------------- *)

\* C5: once the duration passed to block_ip has elapsed since the call, is_ip_blocked
\* is false for the identity.
C5_BlockExpires ==
    \A e \in block_log :
        now >= e.at + e.duration_minutes => ~is_ip_blocked(RL, e.ip)

(* ------------------------------- C6 ----------------------------------- *)

Last(log) == log[Len(log)]

\* The (identity, route) pair holds limit entries and the identity is not blocked
Exhausted(rl, ip, path) ==
    /\ path \in RateLimitedRoutes
    /\ Len(rl.requests[<<ip, path>>]) = LimitOf(path)
    /\ ip \notin rl.blocked_ips

\* The log of the pair the exchange is about, before and after
LogBefore == Before.requests[<<TheRequest.client_ip, TheRequest.path>>]
LogAfter == requests[<<TheRequest.client_ip, TheRequest.path>>]

\* The rate limiter admitted the request served: it is not denied as rate limited, it
\* is recorded, and nobody is blocked for it
AdmittedByLimiter ==
    /\ TheOutcome # RateLimited
    /\ LogAfter # <<>>
    /\ Last(LogAfter) = now
    /\ blocked_ips = Before.blocked_ips

\* C6, as claimed: when an exhausted pair has seen no request for window ticks (now is
\* at least its last entry plus window), the rate limiter admits its next request.
C6_ResetAfterWindow ==
    (/\ Exchanged
     /\ Exhausted(Before, TheRequest.client_ip, TheRequest.path)
     /\ now >= Last(LogBefore) + WindowOf(TheRequest.path))
    => AdmittedByLimiter

\* C6, amended: when an exhausted pair has seen no request for more than window ticks
\* (now is past its last entry plus window), the rate limiter admits its next request,
\* and the log keeps that request alone.
C6_ResetPastWindow ==
    (/\ Exchanged
     /\ Exhausted(Before, TheRequest.client_ip, TheRequest.path)
     /\ now > Last(LogBefore) + WindowOf(TheRequest.path))
    => (AdmittedByLimiter /\ LogAfter = <<now>>)

\* The exhausted pair of /events is served past its window and the request goes through
C6_Witness ==
    /\ Exchanged
    /\ TheRequest.path = "/events"
    /\ Exhausted(Before, TheRequest.client_ip, "/events")
    /\ now > Last(LogBefore) + WindowOf("/events")
    /\ TheOutcome = Admit
    /\ LogAfter = <<now>>

(* ------------------------------- C7 ----------------------------------- *)

\* Each check of validate_request, taken alone, on the rate limiter rl at time t
FailsBlocked(rl, req) == req.client_ip \in rl.blocked_ips
FailsRateLimit(rl, req, t) == ~WithinLimit(rl, req.client_ip, req.path, t)
FailsAuthMissing(req) == AuthRequired(req.path) /\ ~HasCredential(req)
FailsAuthInvalid(req) == AuthRequired(req.path) /\ ~KnownKey(req)
FailsForbidden(req) == AuthRequired(req.path) /\ ~Permitted(req)
FailsPayload(req) == Oversized(req)

FailsEarly(rl, req, t) ==
    \/ FailsBlocked(rl, req) \/ FailsRateLimit(rl, req, t) \/ FailsAuthMissing(req)
    \/ FailsAuthInvalid(req) \/ FailsForbidden(req)

\* The reason of the earliest failing check, in the order blocked, rate limit, auth
\* missing, auth invalid, forbidden, payload too large
Earliest(rl, req, t) ==
    IF FailsBlocked(rl, req) THEN Blocked
    ELSE IF FailsRateLimit(rl, req, t) THEN RateLimited
    ELSE IF FailsAuthMissing(req) THEN AuthMissing
    ELSE IF FailsAuthInvalid(req) THEN AuthInvalid
    ELSE IF FailsForbidden(req) THEN Forbidden
    ELSE IF FailsPayload(req) THEN PayloadTooLarge
    ELSE Admit

\* How many of the six checks the request fails
FailCount(rl, req, t) ==
    Cardinality({c \in 1..6 :
        \/ c = 1 /\ FailsBlocked(rl, req)
        \/ c = 2 /\ FailsRateLimit(rl, req, t)
        \/ c = 3 /\ FailsAuthMissing(req)
        \/ c = 4 /\ FailsAuthInvalid(req)
        \/ c = 5 /\ FailsForbidden(req)
        \/ c = 6 /\ FailsPayload(req)})

\* C7: validate_request returns the reason of the earliest failing check in the order
\* blocked, rate limit, auth missing, auth invalid, forbidden, payload too large (a
\* content-length that is no number is never read when an earlier check fails), and a
\* check that is not reached leaves no trace: a blocked request leaves the rate limiter
\* as it was, and a request that passes the rate limit changes nothing but its own log.
C7_FixedOrderShortCircuit ==
    Exchanged =>
        /\ (FailsEarly(Before, TheRequest, now) \/ WellFormed(TheRequest))
              => TheOutcome = Earliest(Before, TheRequest, now)
        /\ FailsBlocked(Before, TheRequest) => RL = Before
        /\ (~FailsBlocked(Before, TheRequest) /\ ~FailsRateLimit(Before, TheRequest, now)) =>
              /\ blocked_ips = Before.blocked_ips
              /\ block_log = Before.block_log
              /\ \A k \in DOMAIN requests :
                    k # <<TheRequest.client_ip, TheRequest.path>>
                        => requests[k] = Before.requests[k]

\* A request over its rate limit, with an unknown key and an oversized payload, is
\* denied as rate limited
C7_Witness ==
    /\ Exchanged
    /\ ~FailsBlocked(Before, TheRequest)
    /\ FailsRateLimit(Before, TheRequest, now)
    /\ HasCredential(TheRequest) /\ ~KnownKey(TheRequest)
    /\ Oversized(TheRequest)
    /\ FailCount(Before, TheRequest, now) = 4
    /\ TheOutcome = RateLimited

(* ------------------------------- C8 ----------------------------------- *)

\* C8: for an identity that is not blocked and within its rate limit, on a route that
\* requires authentication: no credential is denied "API key required"; a credential
\* that is not in the key table, "Invalid API key"; a key of the table without the
\* route's permission (events:create for /events, events:batch for /events/batch),
\* "Insufficient permissions"; a key with the permission goes on to the payload check,
\* which alone decides the outcome.
C8_AuthenticationOutcomes ==
    (/\ Exchanged
     /\ TheRequest.client_ip \notin Before.blocked_ips
     /\ AuthRequired(TheRequest.path)
     /\ WithinLimit(Before, TheRequest.client_ip, TheRequest.path, now))
    => /\ ~HasCredential(TheRequest) => TheOutcome = AuthMissing
       /\ (HasCredential(TheRequest) /\ ~KnownKey(TheRequest)) => TheOutcome = AuthInvalid
       /\ (KnownKey(TheRequest) /\ ~Permitted(TheRequest)) => TheOutcome = Forbidden
       /\ (HasCredential(TheRequest) /\ Permitted(TheRequest)) =>
             /\ TheOutcome \notin {Blocked, RateLimited, AuthMissing, AuthInvalid, Forbidden}
             /\ WellFormed(TheRequest) =>
                   TheOutcome = IF Oversized(TheRequest) THEN PayloadTooLarge ELSE Admit

\* The monitoring key, which is in the table but cannot send batches, is served on
\* /events/batch and denied for its permissions
C8_Witness ==
    /\ Exchanged
    /\ TheRequest.client_ip \notin Before.blocked_ips
    /\ TheRequest.path = "/events/batch"
    /\ WithinLimit(Before, TheRequest.client_ip, "/events/batch", now)
    /\ Credential(TheRequest) = <<"monitoring-key-456">>
    /\ TheOutcome = Forbidden

(* ------------------------------- C9 ----------------------------------- *)

\* C9: a request whose content-length is above the route's maximum is denied "Payload
\* too large" when the identity is not blocked, the rate limit passes and
\* authentication passes; and no request is denied "Payload too large" unless its
\* content-length is above a maximum its route has.
C9_PayloadLimit ==
    Exchanged =>
        /\ (/\ TheRequest.client_ip \notin Before.blocked_ips
            /\ WithinLimit(Before, TheRequest.client_ip, TheRequest.path, now)
            /\ Authenticated(TheRequest)
            /\ Oversized(TheRequest))
           => TheOutcome = PayloadTooLarge
        /\ TheOutcome = PayloadTooLarge => Oversized(TheRequest)

\* An authenticated request one byte over the maximum of /events is denied for its size
C9_Witness ==
    /\ Exchanged
    /\ TheRequest.client_ip \notin Before.blocked_ips
    /\ TheRequest.path = "/events"
    /\ WithinLimit(Before, TheRequest.client_ip, "/events", now)
    /\ Authenticated(TheRequest)
    /\ TheRequest.content_length = OverMaxEvents
    /\ IntOf(OverMaxEvents) = MaxPayloadEvents + 1
    /\ TheOutcome = PayloadTooLarge

(* ------------------------------- C1 ----------------------------------- *)

\* The exchanges of hist that identity ip made on route path
OfPair(i, ip, path) ==
    hist[i].request.client_ip = ip /\ hist[i].request.path = path

\* The request passes every check but the block list and the rate limit
OtherwiseValid(req) == Authenticated(req) /\ WellFormed(req) /\ ~Oversized(req)

\* Exchange s opens a run of identity ip on route path: the identity is not blocked
\* (none of its requests has been rate limited) and the window of the pair is empty
\* (none of its requests stands at or after hist[s].at - window)
OpensRun(s, ip, path) ==
    /\ OfPair(s, ip, path)
    /\ \A k \in 1..(s - 1) :
          hist[k].request.client_ip = ip => hist[k].outcome # RateLimited
    /\ \A k \in 1..(s - 1) :
          OfPair(k, ip, path) => hist[k].at < hist[s].at - WindowOf(path)

\* Exchanges s..j of identity ip are a run on route path: from s on the identity sends
\* otherwise-valid requests to that route only, all within window ticks of the first
IsRun(s, j, ip, path) ==
    /\ OpensRun(s, ip, path)
    /\ hist[j].request.client_ip = ip
    /\ hist[j].at <= hist[s].at + WindowOf(path)
    /\ \A k \in s..j :
          hist[k].request.client_ip = ip
              => (hist[k].request.path = path /\ OtherwiseValid(hist[k].request))

\* The rank of exchange j in the run that s opens
RankInRun(s, j, ip) == Cardinality({k \in s..j : hist[k].request.client_ip = ip})

\* C1: for every identity and rate-limited route, in a run that starts from an empty
\* window and a non-blocked identity, the first limit requests are all admitted and
\* request limit+1 is denied "Rate limit exceeded".
C1_LimitAdmittedThenDenied ==
    \A ip \in Identities : \A path \in RateLimitedRoutes :
        \A s \in 1..Len(hist) : \A j \in s..Len(hist) :
            IsRun(s, j, ip, path) =>
                /\ RankInRun(s, j, ip) <= LimitOf(path) => hist[j].outcome = Admit
                /\ RankInRun(s, j, ip) = LimitOf(path) + 1 => hist[j].outcome = RateLimited

\* A run on /events within one window: limit requests admitted, the next one denied
C1_Witness ==
    /\ Len(hist) = LimitOf("/events") + 1
    /\ IsRun(1, Len(hist), "1.2.3.4", "/events")
    /\ RankInRun(1, Len(hist), "1.2.3.4") = LimitOf("/events") + 1
    /\ \A i \in 1..LimitOf("/events") : hist[i].outcome = Admit
    /\ hist[Len(hist)].outcome = RateLimited
    /\ hist[Len(hist)].at > hist[1].at

(* ------------------------------- C10 ---------------------------------- *)

\* The exchanges of identity 1.2.3.4
Mine(e) == e.request.client_ip = "1.2.3.4"
OfIdentity == SelectSeq(hist, Mine)

\* Identity 1.2.3.4 has sent the first n requests of the scenario and nothing else:
\* /events with key K at t = 0, 1, 2, then with key K2 at t = 3
ScenarioPrefix(n) ==
    /\ Len(OfIdentity) = n
    /\ \A i \in 1..n :
          /\ OfIdentity[i].at = i - 1
          /\ OfIdentity[i].request =
                Req("1.2.3.4", "/events", IF i <= 3 THEN <<"K">> ELSE <<"K2">>,
                    NoValue, NoValue)

ScenarioOutcome(i) == IF i <= 2 THEN Admit ELSE IF i = 3 THEN RateLimited ELSE Blocked

Observed(ip, path) ==
    {i \in DOMAIN tasks : /\ tasks[i].pc = "append"
                          /\ tasks[i].req.client_ip = ip
                          /\ tasks[i].req.path = path}

\* Number of timestamps of a log from s to s + window
Within(log, s, window) == Cardinality({j \in 1..Len(log) : log[j] \in s..(s + window)})

\* C11: with several requests of one identity on one route in flight, the count and
\* the append of is_allowed are one step of the event loop: at most one request stands
\* between its count and its append, the log is then still under the limit, and the log
\* never holds more than limit requests admitted within one window.
C11_AtomicCheckAndAppend ==
    \A ip \in Identities : \A path \in RateLimitedRoutes :
        /\ Cardinality(Observed(ip, path)) <= 1
        /\ Observed(ip, path) # {} => Len(requests[<<ip, path>>]) < LimitOf(path)
        /\ \A s \in 0..now :
              Within(requests[<<ip, path>>], s, WindowOf(path)) <= LimitOf(path)

\* A request to /events is between its count and its append while another one of the
\* same identity, admitted before it, is suspended in its send
C11_Witness ==
    \E i, j \in DOMAIN tasks :
        /\ i # j
        /\ tasks[i].req.client_ip = tasks[j].req.client_ip
        /\ tasks[i].req.path = "/events" /\ tasks[j].req.path = "/events"
        /\ tasks[i].pc = "send"
        /\ tasks[j].pc = "append"
        /\ loop = j
        /\ Len(requests[<<tasks[j].req.client_ip, "/events">>]) = LimitOf("/events") - 1

(* ------------------------------- C12 ---------------------------------- *)

\* The requests the application holds or has just answered
Known == {tasks[i] : i \in DOMAIN tasks} \cup {response[i] : i \in DOMAIN response}

\* C12: a send is invoked for a request only after validate_request has returned
\* (True, None) for it: a request for which a send was invoked, or that is in its
\* handler, was admitted; when security_check reaches call_next the request is
\* admitted and nothing has been sent yet; and a request that validate_request has not
\* admitted (not yet, denied, or raised) has had no send.
C12_ForwardOnlyAfterAdmit ==
    \A k \in Known :
        /\ (k.sends > 0 \/ k.left > 0 \/ k.pc \in {"call_next", "send"})
              => k.outcome = Some(Admit)
        /\ k.pc = "call_next" => k.sends = 0
        /\ k.outcome # Some(Admit) => (k.sends = 0 /\ ~k.security_headers)

\* One request is suspended in its send, admitted, while the request just answered was
\* denied for the rate limit without a send
C12_Witness ==
    /\ response # None
    /\ response[1].outcome = Some(RateLimited)
    /\ response[1].sends = 0
    /\ response[1].status = HTTP_429_TOO_MANY_REQUESTS
    /\ \E i \in DOMAIN tasks :
          /\ tasks[i].pc = "send"
          /\ tasks[i].sends = 1
          /\ tasks[i].outcome = Some(Admit)

(* ------------------------------- C13 ---------------------------------- *)

\* What security_check has made of the request served
TheResponse == response[1]

\* C13: the response to a request denied "Rate limit exceeded" has status 429; the
\* response to a request denied for any other reason (blocked, API key required,
\* invalid API key, insufficient permissions, payload too large) has status 401 or
\* 403; and the response to a denied request is never a success (2xx) and is given
\* without call_next.
C13_DenialStatus ==
    (Exchanged /\ ~TheOutcome.raised /\ ~TheOutcome.is_valid) =>
        /\ TheResponse.pc = "done"
        /\ TheOutcome = RateLimited => TheResponse.status = 429
        /\ TheOutcome \in {Blocked, AuthMissing, AuthInvalid, Forbidden, PayloadTooLarge}
              => TheResponse.status \in {401, 403}
        /\ TheOutcome \in {Blocked, RateLimited, AuthMissing, AuthInvalid, Forbidden,
                           PayloadTooLarge}
        /\ TheResponse.status \notin 200..299

\* A request is denied for the rate limit and answered 429
C13_Witness ==
    /\ Exchanged
    /\ TheOutcome = RateLimited
    /\ TheResponse.pc = "done"
    /\ TheResponse.status = 429
    /\ status_code("Payload too large") = 401

(* ------------------------------- C14 ---------------------------------- *)

\* C14: every decision validate_request returns is well formed: an admission carries
\* None for its message, and a denial carries a message, which is not empty.
C14_WellFormedDecision ==
    (Exchanged /\ ~TheOutcome.raised) =>
        /\ TheOutcome.is_valid => TheOutcome.error_message = "None"
        /\ ~TheOutcome.is_valid =>
              /\ TheOutcome.error_message # "None"
              /\ TheOutcome.error_message \in DOMAIN Text
              /\ Len(Text[TheOutcome.error_message]) > 0

\* A request with a key that is not in the table is denied, with its message
C14_Witness ==
    /\ Exchanged
    /\ HasCredential(TheRequest) /\ ~KnownKey(TheRequest)
    /\ ~TheOutcome.raised
    /\ ~TheOutcome.is_valid
    /\ TheOutcome.error_message = "Invalid API key"

(* ------------------------------- C15 ---------------------------------- *)

\* C15: validate_request returns a decision, admit or deny, for every request: no
\* request makes it raise.
C15_Total == Exchanged => ~TheOutcome.raised

(* ------------------------------- C16 ---------------------------------- *)

\* validate_request denied the request answered; a send of it failed
Denied(k) == k.outcome # None /\ ~k.outcome[1].raised /\ ~k.outcome[1].is_valid
ForwardingFailed(k) == k.failed_count > 0

TheCall == call[1]

\* C17: validate_key(api_key) returns (True, the entry of the key) when api_key is,
\* exactly, a key of the table, and (False, None) for any other string; the table is
\* after the call what it was before.
C17_ValidateKeyExact ==
    (call # None /\ TheCall.op = "validate_key") =>
        /\ (\E k \in DOMAIN TheCall.valid_keys : k = TheCall.api_key) =>
              /\ TheCall.result.is_valid
              /\ TheCall.result.key_info = Some(TheCall.valid_keys[TheCall.api_key])
        /\ (\A k \in DOMAIN TheCall.valid_keys : k # TheCall.api_key) =>
              /\ ~TheCall.result.is_valid
              /\ TheCall.result.key_info = None
        /\ api_key_validator.valid_keys = TheCall.valid_keys

\* A key of the table with "Bearer " left before it is not valid, in a table that holds
\* the key
C17_Witness ==
    /\ call # None
    /\ TheCall.op = "validate_key"
    /\ TheCall.api_key = <<"Bearer ", "dev-api-key-123">>
    /\ <<"dev-api-key-123">> \in DOMAIN TheCall.valid_keys
    /\ TheCall.result = [is_valid |-> FALSE, key_info |-> None]

(* ------------------------------- C18 ---------------------------------- *)

\* The permissions the table gives a key: none when the key is not in the table, or
\* its entry names none
PermissionsOf(table, api_key) ==
    IF api_key \in DOMAIN table /\ "permissions" \in DOMAIN table[api_key]
    THEN table[api_key].permissions
    ELSE {}

\* C18: has_permission(api_key, permission) is true exactly when the key is in the
\* table and the permission is one of those its own entry lists; it is false for every
\* key that is not in the table.
C18_HasPermissionOwnSet ==
    (call # None /\ TheCall.op = "has_permission") =>
        /\ TheCall.result <=>
              TheCall.permission \in PermissionsOf(TheCall.valid_keys, TheCall.api_key)
        /\ TheCall.api_key \notin DOMAIN TheCall.valid_keys => ~TheCall.result

\* The monitoring key is asked for events:batch, which it does not hold and the other
\* key of the table does
C18_Witness ==
    /\ call # None
    /\ TheCall.op = "has_permission"
    /\ TheCall.valid_keys = _load_api_keys
    /\ TheCall.api_key = <<"monitoring-key-456">>
    /\ TheCall.permission = "events:batch"
    /\ "events:batch" \in PermissionsOf(TheCall.valid_keys, <<"dev-api-key-123">>)
    /\ TheCall.result = FALSE

(* ------------------------------- C19 ---------------------------------- *)

\* C19: after block_ip(ip, duration_minutes) on an identity that was blocked already,
\* the identity is blocked, every other identity is blocked or not as it was before,
\* and the block ends when the duration of this latest call has elapsed.
C19_BlockIdempotentRefreshes ==
    (call # None /\ TheCall.op = "block_ip" /\ is_ip_blocked(TheCall.before, TheCall.ip)) =>
        /\ now < TheCall.at + TheCall.duration_minutes => is_ip_blocked(RL, TheCall.ip)
        /\ \A other \in Identities \ {TheCall.ip} :
              is_ip_blocked(RL, other) <=> is_ip_blocked(TheCall.before, other)
        /\ now >= TheCall.at + TheCall.duration_minutes => ~is_ip_blocked(RL, TheCall.ip)

(* ------------------------------- C20 ---------------------------------- *)

\* C20: a request without a credential to a route whose auth_required flag is False
\* (/health) or that auth_required does not name (/docs) is admitted when its identity
\* is not blocked and the route's rate limit, if it has one, is not reached, and
\* security_check goes on to call_next.
C20_NoAuthRouteAdmitted ==
    (/\ Exchanged
     /\ ~AuthRequired(TheRequest.path)
     /\ ~HasCredential(TheRequest)
     /\ TheRequest.client_ip \notin Before.blocked_ips
     /\ WithinLimit(Before, TheRequest.client_ip, TheRequest.path, now))
    => (TheOutcome = Admit /\ TheResponse.pc = "call_next")

\* /health is served without a credential, and a second time within its limit
C20_Witness ==
    /\ Exchanged
    /\ TheRequest.path = "/health"
    /\ ~HasCredential(TheRequest)
    /\ TheRequest.client_ip \notin Before.blocked_ips
    /\ Len(Before.requests[<<TheRequest.client_ip, "/health">>]) = 1
    /\ WithinLimit(Before, TheRequest.client_ip, "/health", now)
    /\ TheOutcome = Admit

(* ------------------------------- C21 ---------------------------------- *)

\* s is what is left of t once some of its oldest entries are dropped
IsSuffix(s, t) == \E n \in 0..Len(t) : s = SubSeq(t, n + 1, Len(t))

\* The log of the pair the call named, before the call and now
CallKey == <<TheCall.client_ip, TheCall.endpoint>>
LogWas == TheCall.before.requests[CallKey]
LogIs == requests[CallKey]

\* C21: is_allowed(client_ip, endpoint, limit, window_seconds) changes the log of its own
\* (client_ip, endpoint) pair only.  When it refuses, the log is what eviction left of
\* the old log and nothing is recorded; when it admits, the log is what eviction left
\* followed by exactly one entry, the current time.  The log of every other pair, the
\* set of blocked identities and the block log are as before the call.
C21_IsAllowedFrame ==
    (call # None /\ TheCall.op = "is_allowed") =>
        /\ ~TheCall.result => IsSuffix(LogIs, LogWas)
        /\ TheCall.result =>
              /\ LogIs # <<>>
              /\ LogIs[Len(LogIs)] = TheCall.at
              /\ IsSuffix(SubSeq(LogIs, 1, Len(LogIs) - 1), LogWas)
        /\ \A other \in DOMAIN requests \ {CallKey} :
              requests[other] = TheCall.before.requests[other]
        /\ blocked_ips = TheCall.before.blocked_ips
        /\ block_log = TheCall.before.block_log

\* a call is refused at a full log while another pair has a log of its own
C21_Witness ==
    /\ call # None
    /\ TheCall.op = "is_allowed"
    /\ ~TheCall.result
    /\ Len(LogWas) >= TheCall.limit
    /\ LogIs = LogWas
    /\ \E other \in DOMAIN requests \ {CallKey} : requests[other] # <<>>

(* ------------------------------- C22 ---------------------------------- *)

\* C22: blocked_ips changes only in a step that serves a request on a rate-limited
\* route for which is_allowed returned false: the request is denied "Rate limit
\* exceeded" and its own identity, and no other, is added.  A step that admits a
\* request, or denies it as blocked, for a missing or invalid key, for insufficient
\* permissions or for its payload size, leaves blocked_ips and the block log alone.
C22_OnlyRateLimitBlocks ==
    [][ /\ blocked_ips' # blocked_ips =>
              /\ Exchanged'
              /\ TheOutcome' = RateLimited
              /\ TheRequest'.path \in RateLimitedRoutes
              /\ ~WithinLimit(RL, TheRequest'.client_ip, TheRequest'.path, now)
              /\ blocked_ips' = blocked_ips \cup {TheRequest'.client_ip}
        /\ (/\ Exchanged'
            /\ TheOutcome' \in {Admit, Blocked, AuthMissing, AuthInvalid, Forbidden,
                                PayloadTooLarge})
            => (blocked_ips' = blocked_ips /\ block_log' = block_log) ]_vars

\* An identity is the first to be blocked, by a rate-limit denial on /events/batch,
\* after requests of its own on /events and /events/batch that blocked nobody
C22_Witness ==
    /\ Exchanged
    /\ TheRequest.path = "/events/batch"
    /\ TheOutcome = RateLimited
    /\ Before.blocked_ips = {}
    /\ blocked_ips = {TheRequest.client_ip}
    /\ Before.requests[<<TheRequest.client_ip, "/events">>] # <<>>

(* ------------------------------- C23 ---------------------------------- *)

\* C23: serving a request whose identity is in blocked_ips leaves every log of
\* timestamps as it was, entries older than the window included, and leaves
\* blocked_ips and the block log as they were; the answer is "IP address is blocked"
\* whatever the route's limit, the credential and the content-length are.
C23_BlockedBypasses ==
    (Exchanged /\ TheRequest.client_ip \in Before.blocked_ips) =>
        /\ \A k \in DOMAIN requests : requests[k] = Before.requests[k]
        /\ blocked_ips = Before.blocked_ips
        /\ block_log = Before.block_log
        /\ TheOutcome = Blocked

\* A blocked identity asks for /events/batch with a key that lacks the permission,
\* when the only entry of its log there is older than the window: the entry stays
C23_Witness ==
    /\ Exchanged
    /\ TheRequest.client_ip \in Before.blocked_ips
    /\ TheRequest.path = "/events/batch"
    /\ Credential(TheRequest) = <<"monitoring-key-456">>
    /\ LogBefore # <<>>
    /\ LogBefore[1] < now - WindowOf("/events/batch")
    /\ LogAfter = LogBefore
    /\ TheOutcome = Blocked

(* ------------------------------- C24 ---------------------------------- *)

\* The denials validate_request gives after the rate limit has let the request through
DeniedPastLimiter == {AuthMissing, AuthInvalid, Forbidden, PayloadTooLarge}

\* The request fails authentication or the payload check
FailsLater(req) == ~Authenticated(req) \/ Oversized(req)

\* Exchanges s..j of identity ip are a run of failing requests on route path: from s on
\* the identity sends to that route only, requests that fail authentication or the
\* payload check, all within window ticks of the first
IsDeniedRun(s, j, ip, path) ==
    /\ OpensRun(s, ip, path)
    /\ hist[j].request.client_ip = ip
    /\ hist[j].at <= hist[s].at + WindowOf(path)
    /\ \A k \in s..j :
          hist[k].request.client_ip = ip
              => (hist[k].request.path = path /\ FailsLater(hist[k].request))

LogKept == IF TheCall.result THEN SubSeq(LogIs, 1, Len(LogIs) - 1) ELSE LogIs

\* The entries of the old log that the call, made at TheCall.at, is within
\* window_seconds of
StillCounted == {i \in 1..Len(LogWas) : TheCall.at <= LogWas[i] + TheCall.window_seconds}

\* C25: is_allowed drops the entries with a timestamp strictly less than
\* now - window_seconds and no other: an entry recorded at t is kept, and counts
\* against the limit, in every call at t' with t <= t' <= t + window_seconds, and is
\* dropped, and no longer counts, in a call at t' > t + window_seconds.  The call is
\* admitted exactly when fewer than limit entries still count.
C25_StrictEviction ==
    (call # None /\ TheCall.op = "is_allowed") =>
        /\ \A i \in 1..Len(LogWas) : LogWas[i] <= TheCall.at
        /\ Len(LogKept) = Cardinality(StillCounted)
        /\ \A i \in StillCounted : LogKept[i - (Len(LogWas) - Len(LogKept))] = LogWas[i]
        /\ TheCall.result <=> Cardinality(StillCounted) < TheCall.limit

\* A call made exactly window_seconds after the only entry of the log, with limit 1:
\* the entry is kept and the call is refused for it
C25_Witness ==
    /\ call # None
    /\ TheCall.op = "is_allowed"
    /\ TheCall.limit = 1
    /\ TheCall.window_seconds > 0
    /\ Len(LogWas) = 1
    /\ TheCall.at = LogWas[1] + TheCall.window_seconds
    /\ LogIs = LogWas
    /\ ~TheCall.result

(* ------------------------------- C26 ---------------------------------- *)

\* What serving req in the current state returns and leaves, under the tables of the
\* scenario
PostScenario(req) == validate_request(ScenarioPolicies, ScenarioKeys, RL, req, now)

\* The keys of the scenario that hold the permission of /events
EventsKeys == {k \in DOMAIN ScenarioKeys : "events:create" \in ScenarioKeys[k].permissions}

\* C26: in every state, two requests of one identity on /events that differ only in
\* the key they carry, both keys valid and holding events:create, get the same answer
\* and leave the same rate limiter, although the two keys have different rate_limits
\* of their own.  The request served is denied "Rate limit exceeded" exactly when the
\* log of its (identity, route) pair holds, within the window of the route's policy
\* entry, as many entries as the limit of that entry.
C26_CredentialBlindLimit ==
    /\ \A ip \in Identities : \A k1 \in EventsKeys : \A k2 \in EventsKeys :
          PostScenario(Req(ip, "/events", k1, NoValue, NoValue)) =
              PostScenario(Req(ip, "/events", k2, NoValue, NoValue))
    /\ (/\ Exchanged
        /\ TheRequest.path \in DOMAIN ScenarioPolicies.rate_limits
        /\ TheRequest.client_ip \notin Before.blocked_ips)
       => (TheOutcome = RateLimited <=>
              InWindow(LogBefore, now, ScenarioPolicies.rate_limits[TheRequest.path].window)
                  >= ScenarioPolicies.rate_limits[TheRequest.path].limit)

\* Key K2, whose own rate_limits allow one request, is admitted as the second request
\* of its identity in the window, and key K would have been admitted as well
C26_Witness ==
    /\ Exchanged
    /\ Credential(TheRequest) = <<"K2">>
    /\ ScenarioKeys[<<"K2">>].rate_limits # ScenarioKeys[<<"K">>].rate_limits
    /\ Len(LogBefore) = 1
    /\ InWindow(LogBefore, now, ScenarioKeys[<<"K2">>].rate_limits["/events"].window) = 1
    /\ TheOutcome = Admit
    /\ Len(LogAfter) = 2

====
